---- MODULE Spec2Model ----
(***************************************************************************)
(* A model of src/src/vnpay.ts (class VNPay): the sorted canonical string  *)
(* and signature of buildPaymentUrl and verifyReturnUrl / verifyIpnCall,   *)
(* and the response handling of queryDr and refund.                        *)
(*                                                                         *)
(* Strings are sequences of one-character strings.  A JavaScript value is  *)
(* a tagged record: Str(s), Num(n), NaN, Undef, Null, Bool(b).  An object  *)
(* is a function from its own keys to values; a key that is absent has the *)
(* value undefined.                                                        *)
(***************************************************************************)
EXTENDS Integers, Sequences, FiniteSets, TLC

VARIABLES
    cfg,        \* the instance: HASH_ALGORITHM and globalDefaultConfig
    op,         \* the operation that ran last
    callback,   \* the field map as it was delivered to the merchant
    query,      \* the caller's object handed to verifyReturnUrl (mutable)
    arg,        \* that object as it was when the last verification was called
    result,     \* what the last verifyReturnUrl / verifyIpnCall returned
    first,      \* what the first verification of this object returned
    calls,      \* verifications of this object so far
    tampered,   \* the field whose value was changed after a verified callback
    data,       \* the argument of the last buildPaymentUrl
    url,        \* what the last buildPaymentUrl returned
    request,    \* the JSON body the last queryDr / refund posted
    response,   \* the HTTP response the last queryDr / refund received
    outcome     \* what the last queryDr / refund returned or threw

vars == <<cfg, op, callback, query, arg, result, first, calls, tampered, data, url,
          request, response, outcome>>

(***************************************************************************)
(* JavaScript values                                                       *)
(***************************************************************************)
Str(s) == [t |-> "str", s |-> s]
Num(n) == [t |-> "num", n |-> n]
Bool(b) == [t |-> "bool", b |-> b]
NaN == [t |-> "nan"]
Undef == [t |-> "undef"]
Null == [t |-> "null"]

\* The object without any own property, and "no object at all".
EmptyObject == [k \in {} |-> Undef]
None == [t |-> "none"]

\* obj.key: the own property, or undefined.
Get(obj, k) == IF k \in DOMAIN obj THEN obj[k] ELSE Undef

\* { ...a, ...b }: b's properties override a's.
Spread(a, b) ==
    [k \in DOMAIN a \cup DOMAIN b |-> IF k \in DOMAIN b THEN b[k] ELSE a[k]]

\* delete obj.key
Delete(obj, k) == [j \in DOMAIN obj \ {k} |-> obj[j]]

(***************************************************************************)
(* Characters                                                              *)
(***************************************************************************)
DigitChars == <<"0", "1", "2", "3", "4", "5", "6", "7", "8", "9">>
UpperChars == <<"A", "B", "C", "D", "E", "F", "G", "H", "I", "J", "K", "L", "M",
                "N", "O", "P", "Q", "R", "S", "T", "U", "V", "W", "X", "Y", "Z">>
LowerChars == <<"a", "b", "c", "d", "e", "f", "g", "h", "i", "j", "k", "l", "m",
                "n", "o", "p", "q", "r", "s", "t", "u", "v", "w", "x", "y", "z">>

Range(s) == {s[i] : i \in DOMAIN s}
IndexOf(s, c) == CHOOSE i \in DOMAIN s : s[i] = c

DigitSet == Range(DigitChars)
UpperSet == Range(UpperChars)
LowerSet == Range(LowerChars)

IsDigit(c) == c \in DigitSet
IsUpper(c) == c \in UpperSet
IsLower(c) == c \in LowerSet

\* The characters of the text "undefined", "null", "NaN", "Wrong checksum".
UNDEFINED == <<"u", "n", "d", "e", "f", "i", "n", "e", "d">>
NULLTEXT == <<"n", "u", "l", "l">>
NANTEXT == <<"N", "a", "N">>
WrongChecksum ==
    <<"W", "r", "o", "n", "g", " ", "c", "h", "e", "c", "k", "s", "u", "m">>

RECURSIVE NatToString(_)
NatToString(n) ==
    IF n < 10 THEN <<DigitChars[n + 1]>>
    ELSE NatToString(n \div 10) \o <<DigitChars[(n % 10) + 1]>>

\* Number.prototype.toString for the integers of the model.
IntToString(n) == IF n < 0 THEN <<"-">> \o NatToString(0 - n) ELSE NatToString(n)

\* value.toString() and `${value}` agree on strings and numbers; the template
\* literal also renders undefined and null.
JsToString(v) ==
    CASE v.t = "str" -> v.s
      [] v.t = "num" -> IntToString(v.n)
      [] v.t = "nan" -> NANTEXT
      [] v.t = "undef" -> UNDEFINED
      [] v.t = "null" -> NULLTEXT
      [] v.t = "bool" -> IF v.b THEN <<"t", "r", "u", "e">>
                         ELSE <<"f", "a", "l", "s", "e">>

RECURSIVE DigitsValue(_)
DigitsValue(s) ==
    IF s = <<>> THEN 0
    ELSE 10 * DigitsValue(SubSeq(s, 1, Len(s) - 1)) + (IndexOf(DigitChars, s[Len(s)]) - 1)

RECURSIVE TrimSpaces(_)
TrimSpaces(s) ==
    IF s = <<>> THEN s
    ELSE IF Head(s) = " " THEN TrimSpaces(Tail(s))
    ELSE IF s[Len(s)] = " " THEN TrimSpaces(SubSeq(s, 1, Len(s) - 1))
    ELSE s

\* Number(string) on the model's alphabet (digits, a sign, spaces, letters):
\* blank is 0, an optionally signed run of digits is its value, the rest is NaN.
StringToNumber(s) ==
    LET u == TrimSpaces(s)
        neg == u # <<>> /\ Head(u) = "-"
        pos == u # <<>> /\ Head(u) = "+"
        body == IF neg \/ pos THEN Tail(u) ELSE u
    IN  IF u = <<>> THEN Num(0)
        ELSE IF body # <<>> /\ \A i \in DOMAIN body : IsDigit(body[i])
             THEN Num(IF neg THEN 0 - DigitsValue(body) ELSE DigitsValue(body))
             ELSE NaN

\* ToNumber, as Number(v) and the arithmetic operators apply it.
ToNumber(v) ==
    CASE v.t = "num" -> v
      [] v.t = "str" -> StringToNumber(v.s)
      [] v.t = "null" -> Num(0)
      [] v.t = "bool" -> Num(IF v.b THEN 1 ELSE 0)
      [] OTHER -> NaN

\* !value
Falsy(v) ==
    \/ v.t \in {"undef", "null", "nan"}
    \/ v.t = "str" /\ v.s = <<>>
    \/ v.t = "num" /\ v.n = 0
    \/ v.t = "bool" /\ ~v.b

(***************************************************************************)
(* URLSearchParams: the application/x-www-form-urlencoded serializer and   *)
(* parser, on the characters of the model.                                 *)
(***************************************************************************)
\* The characters the serializer percent-encodes, with their two hex digits.
PercentChars == <<"%", "&", "+", "/", ":", "=", "[", "]", "|">>
PercentCodes == << <<"2", "5">>, <<"2", "6">>, <<"2", "B">>, <<"2", "F">>,
                   <<"3", "A">>, <<"3", "D">>, <<"5", "B">>, <<"5", "D">>,
                   <<"7", "C">> >>
PercentSet == Range(PercentChars)
PercentCodeSet == Range(PercentCodes)
PercentCodeOf == [c \in PercentSet |-> PercentCodes[IndexOf(PercentChars, c)]]
PercentCharOf == [d \in PercentCodeSet |-> PercentChars[IndexOf(PercentCodes, d)]]

\* One character serialized: a space is "+", letters, digits and "*-._" stay,
\* every other byte is %XX.
EncodeChar(c) ==
    IF c = " " THEN <<"+">>
    ELSE IF c \in PercentSet
         THEN <<"%">> \o PercentCodeOf[c]
         ELSE <<c>>

\* pieces[lo] \o ... \o pieces[hi]
RECURSIVE Concat(_, _, _)
Concat(pieces, lo, hi) ==
    IF lo > hi THEN <<>>
    ELSE IF lo = hi THEN pieces[lo]
    ELSE Concat(pieces, lo, (lo + hi) \div 2) \o Concat(pieces, ((lo + hi) \div 2) + 1, hi)

UrlEncode(s) == Concat([i \in DOMAIN s |-> EncodeChar(s[i])], 1, Len(s))

\* One name=value pair of the serialized list.
SerializePair(name, value) == UrlEncode(name) \o <<"=">> \o UrlEncode(value)

\* searchParams.append(name, value) on the serialization so far.
AppendParam(search, name, value) ==
    IF search = <<>> THEN SerializePair(name, value)
    ELSE search \o <<"&">> \o SerializePair(name, value)

\* The parser's decoding of one name or value: "+" is a space, %XX is the
\* byte it names, a "%" that starts no known escape stays.  (The two
\* characters of an escape are never "%", so an escape starts wherever a "%"
\* is followed by a known code.)
StartsEscape(s, i) ==
    /\ i >= 1
    /\ i + 2 <= Len(s)
    /\ s[i] = "%"
    /\ <<s[i + 1], s[i + 2]>> \in PercentCodeSet

DecodeAt(s, i) ==
    IF StartsEscape(s, i) THEN <<PercentCharOf[<<s[i + 1], s[i + 2]>>]>>
    ELSE IF StartsEscape(s, i - 1) \/ StartsEscape(s, i - 2) THEN <<>>
    ELSE IF s[i] = "+" THEN <<" ">>
    ELSE <<s[i]>>

UrlDecode(s) == Concat([i \in DOMAIN s |-> DecodeAt(s, i)], 1, Len(s))

\* The pieces of s between the occurrences of sep.
RECURSIVE Split(_, _)
Split(s, sep) ==
    IF \A i \in DOMAIN s : s[i] # sep THEN <<s>>
    ELSE LET i == CHOOSE j \in DOMAIN s :
                    s[j] = sep /\ \A k \in 1..(j - 1) : s[k] # sep
         IN  <<SubSeq(s, 1, i - 1)>> \o Split(SubSeq(s, i + 1, Len(s)), sep)

(***************************************************************************)
(* Field names.  An object's keys are TLA+ strings; KeyChars gives the     *)
(* characters of each, which the sort and the serializer read.             *)
(***************************************************************************)
KeyChars ==
    [vnp_Amount |-> <<"v", "n", "p", "_", "A", "m", "o", "u", "n", "t">>,
     vnp_Command |-> <<"v", "n", "p", "_", "C", "o", "m", "m", "a", "n", "d">>,
     vnp_CreateDate |->
        <<"v", "n", "p", "_", "C", "r", "e", "a", "t", "e", "D", "a", "t", "e">>,
     vnp_CurrCode |-> <<"v", "n", "p", "_", "C", "u", "r", "r", "C", "o", "d", "e">>,
     vnp_IpAddr |-> <<"v", "n", "p", "_", "I", "p", "A", "d", "d", "r">>,
     vnp_Locale |-> <<"v", "n", "p", "_", "L", "o", "c", "a", "l", "e">>,
     vnp_OrderInfo |->
        <<"v", "n", "p", "_", "O", "r", "d", "e", "r", "I", "n", "f", "o">>,
     vnp_OrderType |->
        <<"v", "n", "p", "_", "O", "r", "d", "e", "r", "T", "y", "p", "e">>,
     vnp_ResponseCode |->
        <<"v", "n", "p", "_", "R", "e", "s", "p", "o", "n", "s", "e", "C", "o", "d", "e">>,
     vnp_ReturnUrl |->
        <<"v", "n", "p", "_", "R", "e", "t", "u", "r", "n", "U", "r", "l">>,
     vnp_SecureHash |->
        <<"v", "n", "p", "_", "S", "e", "c", "u", "r", "e", "H", "a", "s", "h">>,
     vnp_SecureHashType |->
        <<"v", "n", "p", "_", "S", "e", "c", "u", "r", "e", "H", "a", "s", "h",
          "T", "y", "p", "e">>,
     vnp_TmnCode |-> <<"v", "n", "p", "_", "T", "m", "n", "C", "o", "d", "e">>,
     vnp_TxnRef |-> <<"v", "n", "p", "_", "T", "x", "n", "R", "e", "f">>,
     vnp_Version |-> <<"v", "n", "p", "_", "V", "e", "r", "s", "i", "o", "n">>,
     Ref |-> <<"R", "e", "f">>,
     lang |-> <<"l", "a", "n", "g">>]

AllKeys == DOMAIN KeyChars

\* The key whose characters are s, or None.
KeyOfChars(s) ==
    IF \E k \in AllKeys : KeyChars[k] = s
    THEN CHOOSE k \in AllKeys : KeyChars[k] = s
    ELSE "?"

(***************************************************************************)
(* String.prototype.localeCompare on field names (letters, digits, "_"),   *)
(* as the default collation orders them: first by the letters regardless   *)
(* of case ("_" before digits before letters), and only between names that *)
(* differ in case alone, the lower-case letter first.                      *)
(***************************************************************************)
ToLower(c) == IF IsUpper(c) THEN LowerChars[IndexOf(UpperChars, c)] ELSE c

KeyCharSet == DigitSet \cup UpperSet \cup LowerSet \cup {"_"}

PrimaryWeightOf ==
    [c \in KeyCharSet |->
        IF c = "_" THEN 0
        ELSE IF IsDigit(c) THEN IndexOf(DigitChars, c)
        ELSE 10 + IndexOf(LowerChars, ToLower(c))]

PrimaryWeight(c) == PrimaryWeightOf[c]

\* The byte of a field-name character: digits, upper case, "_", lower case.
ByteOfTable ==
    [c \in KeyCharSet |->
        IF IsDigit(c) THEN 47 + IndexOf(DigitChars, c)
        ELSE IF IsUpper(c) THEN 64 + IndexOf(UpperChars, c)
        ELSE IF c = "_" THEN 95
        ELSE 96 + IndexOf(LowerChars, c)]

ByteOf(c) == ByteOfTable[c]

\* -1, 0 or 1: a and b compared at the first place where their weights
\* differ, a proper prefix first.
CompareBy(weight, a, b) ==
    LET m == IF Len(a) < Len(b) THEN Len(a) ELSE Len(b)
        differ == {i \in 1..m : weight[a[i]] # weight[b[i]]}
    IN  IF differ = {}
        THEN IF Len(a) < Len(b) THEN 0 - 1 ELSE IF Len(a) > Len(b) THEN 1 ELSE 0
        ELSE LET i == CHOOSE j \in differ : \A k \in differ : j <= k
             IN  IF weight[a[i]] < weight[b[i]] THEN 0 - 1 ELSE 1

CaseWeight(c) == IF IsUpper(c) THEN 1 ELSE 0

CaseWeightOf == [c \in KeyCharSet |-> CaseWeight(c)]

ByteCompare(a, b) == CompareBy(ByteOfTable, a, b)

LocaleCompare(a, b) ==
    IF CompareBy(PrimaryWeightOf, a, b) # 0 THEN CompareBy(PrimaryWeightOf, a, b)
    ELSE CompareBy(CaseWeightOf, a, b)

\* How many field names each field name follows, under each comparison: its
\* place in the order the comparison gives (both are total on field names).
LocaleRank ==
    [k \in AllKeys |->
        Cardinality({j \in AllKeys : LocaleCompare(KeyChars[j], KeyChars[k]) < 0})]

ByteRank ==
    [k \in AllKeys |->
        Cardinality({j \in AllKeys : ByteCompare(KeyChars[j], KeyChars[k]) < 0})]

\* The keys in ascending rank.
SortKeysBy(rank, keys) ==
    LET place(k) == 1 + Cardinality({j \in keys : rank[j] < rank[k]})
    IN  [i \in 1..Cardinality(keys) |-> CHOOSE k \in keys : place(k) = i]

\* Object.entries(obj).sort(([key1], [key2]) => key1.localeCompare(key2)):
\* the keys of obj in the order the comparison puts them.
SortKeys(keys) == SortKeysBy(LocaleRank, keys)

(***************************************************************************)
(* Collaborators of ./utils/common and ./constants                         *)
(***************************************************************************)
\* hash(secret, data, algorithm): the keyed digest as text.  An ideal keyed
\* hash: distinct (algorithm, secret, data) give distinct digests, and no
\* proper prefix of a digest is a digest ("]" ends every digest).
Hash(secret, payload, algorithm) ==
    <<"[">> \o algorithm \o <<":">> \o secret \o <<":">> \o payload \o <<"]">>

\* getResponseByStatusCode(code, locale, map): the text the table holds.
GetResponseByStatusCode(code, locale, table) ==
    [t |-> "msg", code |-> code, locale |-> locale, table |-> table]

SHA512 == <<"S", "H", "A", "5", "1", "2">>
SHA256 == <<"S", "H", "A", "2", "5", "6">>
SECRET == <<"S", "E", "C", "R", "E", "T">>
TMNCODE == <<"T", "M", "N">>
VNP_VERSION == <<"2", ".", "1", ".", "0">>
VNP_DEFAULT_COMMAND == <<"p", "a", "y">>
PRODUCT_CODE_OTHER == <<"o", "t", "h", "e", "r">>
CURR_VND == <<"V", "N", "D">>
LOCALE_VN == <<"v", "n">>
LOCALE_EN == <<"e", "n">>

(***************************************************************************)
(* The instance                                                            *)
(***************************************************************************)
\* new VNPay({tmnCode, secureSecret, hashAlgorithm?}): HASH_ALGORITHM is
\* SHA512 unless the config names one.
Constructor(hashAlgorithm) ==
    [HASH_ALGORITHM |-> IF hashAlgorithm = Undef THEN SHA512 ELSE hashAlgorithm.s,
     secureSecret |-> SECRET,
     tmnCode |-> TMNCODE,
     vnp_Version |-> VNP_VERSION,
     vnp_CurrCode |-> CURR_VND,
     vnp_Locale |-> LOCALE_VN,
     vnp_OrderType |-> PRODUCT_CODE_OTHER,
     vnp_Command |-> VNP_DEFAULT_COMMAND]

\* get defaultConfig()
DefaultConfig(c) ==
    [vnp_TmnCode |-> Str(c.tmnCode),
     vnp_Version |-> Str(c.vnp_Version),
     vnp_CurrCode |-> Str(c.vnp_CurrCode),
     vnp_Locale |-> Str(c.vnp_Locale),
     vnp_Command |-> Str(c.vnp_Command),
     vnp_OrderType |-> Str(c.vnp_OrderType)]

(***************************************************************************)
(* verifyReturnUrl and verifyIpnCall                                       *)
(***************************************************************************)
\* The skip of verifyReturnUrl's loop:
\* value === '' || value === undefined || value === null.
VerifySkips(v) == v = Str(<<>>) \/ v = Undef \/ v = Null

\* The loop over the sorted entries: searchParams.toString() once every
\* entry that is not skipped has been appended.
RECURSIVE VerifyAppendAll(_, _, _)
VerifyAppendAll(q, keys, search) ==
    IF keys = <<>> THEN search
    ELSE VerifyAppendAll(q, Tail(keys),
            IF VerifySkips(q[Head(keys)]) THEN search
            ELSE AppendParam(search, KeyChars[Head(keys)], JsToString(q[Head(keys)])))

VerifySearchParams(q) == VerifyAppendAll(q, SortKeys(DOMAIN q), <<>>)

\* query.vnp_Amount / 100
Divide100(v) ==
    LET n == ToNumber(v)
    IN  IF n = NaN THEN NaN
        ELSE IF n.n % 100 = 0 THEN Num(n.n \div 100)
        ELSE [t |-> "ratio", n |-> n.n, d |-> 100]

\* delete query.vnp_SecureHash; delete query.vnp_SecureHashType;
StripSignatureFields(q0) == Delete(Delete(q0, "vnp_SecureHash"), "vnp_SecureHashType")

\* The signature verifyReturnUrl recomputes over the stripped object.
VerifySigned(c, q) ==
    Str(Hash(c.secureSecret, VerifySearchParams(q), c.HASH_ALGORITHM))

\* outputResults as first built: isVerified true, isSuccess, the looked-up
\* message.
InitialOutputResults(c, q) ==
    LET code == Get(q, "vnp_ResponseCode")
    IN  [isVerified |-> Bool(TRUE),
         isSuccess |-> Bool(code = Str(<<"0", "0">>)),
         message |-> GetResponseByStatusCode(
                        IF code = Undef \/ code = Null THEN Str(<<>>)
                        ELSE Str(JsToString(code)),
                        c.vnp_Locale, "RESPONSE_MAP")]

\* Mutant: the message of a mismatch is left as looked up.
OutputResultsMessageKept(c, q, secureHash) ==
    IF secureHash # VerifySigned(c, q)
    THEN Spread(InitialOutputResults(c, q), [isVerified |-> Bool(FALSE)])
    ELSE InitialOutputResults(c, q)

\* Mutant: isSuccess also asks for a matching signature.
OutputResultsSuccessNeedsSignature(c, q, secureHash) ==
    IF secureHash # VerifySigned(c, q)
    THEN Spread(InitialOutputResults(c, q),
                [isVerified |-> Bool(FALSE), isSuccess |-> Bool(FALSE),
                 message |-> Str(WrongChecksum)])
    ELSE InitialOutputResults(c, q)

\* Mutant: the signatures are compared by length only.
OutputResultsLengthCompared(c, q, secureHash) ==
    IF secureHash = Undef \/ Len(secureHash.s) # Len(VerifySigned(c, q).s)
    THEN Spread(InitialOutputResults(c, q),
                [isVerified |-> Bool(FALSE), message |-> Str(WrongChecksum)])
    ELSE InitialOutputResults(c, q)

\* outputResults once the signature was compared:
\* if (secureHash !== signed) Object.assign(outputResults, {...}).
OutputResults(c, q, secureHash) ==
    IF secureHash # VerifySigned(c, q)
    THEN Spread(InitialOutputResults(c, q),
                [isVerified |-> Bool(FALSE), message |-> Str(WrongChecksum)])
    ELSE InitialOutputResults(c, q)

\* verifyReturnUrl(query): `query` is the caller's object after the call (the
\* two deletes act on it), `ret` the object returned.
verifyReturnUrl(c, q0) ==
    LET secureHash == Get(q0, "vnp_SecureHash")
        q == StripSignatureFields(q0)
    IN  [query |-> q,
         ret |-> Spread(Spread(q, OutputResults(c, q, secureHash)),
                        [vnp_Amount |-> Divide100(Get(q, "vnp_Amount"))])]

\* verifyIpnCall(query) { return this.verifyReturnUrl(query); }
verifyIpnCall(c, q0) == verifyReturnUrl(c, q0)


(***************************************************************************)
(* buildPaymentUrl                                                         *)
(***************************************************************************)
\* resolveUrlString(vnpayHost, paymentEndpoint), as new URL(...) renders it.
PAYMENT_URL == <<"h", ":", "/", "/", "g", "/", "p">>

\* isValidVnpayDateFormat(date): fourteen digits yyyyMMddHHmmss with the
\* month, day, hour, minute and second in range.
IsValidVnpayDateFormat(v) ==
    /\ v.t = "str"
    /\ Len(v.s) = 14
    /\ \A i \in DOMAIN v.s : IsDigit(v.s[i])
    /\ DigitsValue(SubSeq(v.s, 5, 6)) \in 1..12
    /\ DigitsValue(SubSeq(v.s, 7, 8)) \in 1..31
    /\ DigitsValue(SubSeq(v.s, 9, 10)) \in 0..23
    /\ DigitsValue(SubSeq(v.s, 11, 12)) \in 0..59
    /\ DigitsValue(SubSeq(v.s, 13, 14)) \in 0..59

\* dataToBuild.vnp_Amount * 100
Multiply100(v) ==
    LET n == ToNumber(v)
    IN  IF n = NaN THEN NaN ELSE Num(n.n * 100)

\* dataToBuild once the amount was multiplied and the creation date settled;
\* `now` is the current time in Asia/Ho_Chi_Minh as dateFormat renders it.
DataToBuild(c, params, now) ==
    LET merged == Spread(DefaultConfig(c), params)
        scaled == Spread(merged, [vnp_Amount |-> Multiply100(Get(merged, "vnp_Amount"))])
        date == Get(scaled, "vnp_CreateDate")
    IN  IF ~IsValidVnpayDateFormat(IF date = Undef \/ date = Null THEN Num(0) ELSE date)
        THEN Spread(scaled, [vnp_CreateDate |-> Str(now)])
        ELSE scaled

\* Mutant: only undefined and null are skipped.
BuildSkipsNullish(v) == v = Undef \/ v = Null

\* The skip of buildPaymentUrl's loop:
\* !value || value === '' || value === undefined || value === null.
BuildSkips(v) == Falsy(v) \/ v = Str(<<>>) \/ v = Undef \/ v = Null

\* The loop over the sorted entries: the URL's query once every entry that is
\* not skipped has been appended.
RECURSIVE BuildAppendAll(_, _, _)
BuildAppendAll(d, keys, search) ==
    IF keys = <<>> THEN search
    ELSE BuildAppendAll(d, Tail(keys),
            IF BuildSkips(d[Head(keys)]) THEN search
            ELSE AppendParam(search, KeyChars[Head(keys)], JsToString(d[Head(keys)])))

\* redirectUrl.search.slice(1) before the signature is appended.
BuildSearch(d) == BuildAppendAll(d, SortKeys(DOMAIN d), <<>>)

\* buildPaymentUrl(data): redirectUrl.toString().
buildPaymentUrl(c, params, now) ==
    LET search == BuildSearch(DataToBuild(c, params, now))
        signed == Hash(c.secureSecret, search, c.HASH_ALGORITHM)
        withHash == AppendParam(search, KeyChars["vnp_SecureHash"], signed)
    IN  Str(PAYMENT_URL \o <<"?">> \o withHash)

(***************************************************************************)
(* queryDr and refund                                                      *)
(***************************************************************************)
\* values[1] | values[2] | ... rendered as a template literal renders them.
JoinPipe(values) ==
    Concat([i \in DOMAIN values |->
                IF i = 1 THEN JsToString(values[i])
                ELSE <<"|">> \o JsToString(values[i])],
           1, Len(values))

\* text.replace(/undefined/g, ''): no two occurrences of "undefined" overlap,
\* so a character goes exactly when an occurrence covers it.
OccursAt(text, i) ==
    /\ i >= 1
    /\ i + Len(UNDEFINED) - 1 <= Len(text)
    /\ SubSeq(text, i, i + Len(UNDEFINED) - 1) = UNDEFINED

\* Mutant: nothing is removed.
ScrubNothing(text) == text

ScrubUndefined(text) ==
    Concat([i \in DOMAIN text |->
                IF \E j \in (i - Len(UNDEFINED) + 1)..i : OccursAt(text, j)
                THEN <<>> ELSE <<text[i]>>],
           1, Len(text))

QUERYDR == <<"q", "u", "e", "r", "y", "d", "r">>
REFUND == <<"r", "e", "f", "u", "n", "d">>

\* queryDr's stringToCheckSum and the body it posts.
QueryDrRequestBody(c, q) ==
    LET dataQuery == Spread([vnp_Version |-> Str(c.vnp_Version)], q)
        stringToCheckSum ==
            JoinPipe(<<Get(dataQuery, "vnp_RequestId"), Get(dataQuery, "vnp_Version"),
                       Str(QUERYDR), Str(c.tmnCode), Get(dataQuery, "vnp_TxnRef"),
                       Get(dataQuery, "vnp_TransactionDate"),
                       Get(dataQuery, "vnp_CreateDate"), Get(dataQuery, "vnp_IpAddr"),
                       Get(dataQuery, "vnp_OrderInfo")>>)
    IN  Spread(dataQuery,
               [vnp_Command |-> Str(QUERYDR),
                vnp_TmnCode |-> Str(c.tmnCode),
                vnp_SecureHash |->
                    Str(Hash(c.secureSecret, stringToCheckSum, c.HASH_ALGORITHM))])

\* refund's stringToSigned and the body it posts.
RefundRequestBody(c, d) ==
    LET dataQuery == Spread(d, [vnp_Command |-> Str(REFUND),
                                vnp_Version |-> Str(c.vnp_Version),
                                vnp_TmnCode |-> Str(c.tmnCode)])
        stringToSigned ==
            JoinPipe(<<Get(dataQuery, "vnp_RequestId"), Get(dataQuery, "vnp_Version"),
                       Str(REFUND), Get(dataQuery, "vnp_TmnCode"),
                       Get(dataQuery, "vnp_TransactionType"), Get(dataQuery, "vnp_TxnRef"),
                       Get(dataQuery, "vnp_Amount"), Get(dataQuery, "vnp_TransactionNo"),
                       Get(dataQuery, "vnp_TransactionDate"), Get(dataQuery, "vnp_CreateBy"),
                       Get(dataQuery, "vnp_CreateDate"), Get(dataQuery, "vnp_IpAddr"),
                       Get(dataQuery, "vnp_OrderInfo")>>)
    IN  Spread(dataQuery,
               [vnp_SecureHash |->
                    Str(Hash(c.secureSecret, stringToSigned, c.HASH_ALGORITHM))])

\* response.ok
ResponseOk(resp) == resp.status \in 200..299

\* Mutant: the upper end of the range is not checked.
IsSoftErrorCodeNoUpperEnd(code) ==
    LET n == ToNumber(code)
    IN  n # NaN /\ n.n >= 90

\* Number(vnp_ResponseCode) >= 90 && Number(vnp_ResponseCode) <= 99
IsSoftErrorCode(code) ==
    LET n == ToNumber(code)
    IN  n # NaN /\ n.n >= 90 /\ n.n <= 99

\* responseData.vnp_ResponseCode?.toString()
CodeToString(code) ==
    IF code = Undef \/ code = Null THEN Undef ELSE Str(JsToString(code))

\* { ...responseData, vnp_Message: getResponseByStatusCode(...) }
WithMessage(c, r, table) ==
    Spread(r, [vnp_Message |->
                GetResponseByStatusCode(CodeToString(Get(r, "vnp_ResponseCode")),
                                        c.vnp_Locale, table)])

Throw(error) == [t |-> "throw", error |-> error]
Return(value) == [t |-> "return", value |-> value]

HttpError(resp) == [t |-> "throw", error |-> "HTTP error! status", status |-> resp.status]
WrongChecksumFromVNPay == Throw("Wrong checksum from VNPay response")

\* queryDr's stringToCheckSumResponse, scrubbed.
QueryDrStringToCheckSumResponse(c, r) ==
    ScrubUndefined(
        JoinPipe(<<Get(r, "vnp_ResponseId"), Get(r, "vnp_Command"),
                   Get(r, "vnp_ResponseCode"), Get(r, "vnp_Message"),
                   DefaultConfig(c).vnp_TmnCode, Get(r, "vnp_TxnRef"),
                   Get(r, "vnp_Amount"), Get(r, "vnp_BankCode"), Get(r, "vnp_PayDate"),
                   Get(r, "vnp_TransactionNo"), Get(r, "vnp_TransactionType"),
                   Get(r, "vnp_TransactionStatus"), Get(r, "vnp_OrderInfo"),
                   Get(r, "vnp_PromotionCode"), Get(r, "vnp_PromotionAmount")>>))

\* refund's stringToChecksumResponse.
RefundStringToChecksumResponse(r) ==
    JoinPipe(<<Get(r, "vnp_ResponseId"), Str(REFUND), Get(r, "vnp_ResponseCode"),
               Get(r, "vnp_Message"), Get(r, "vnp_TmnCode"), Get(r, "vnp_TxnRef"),
               Get(r, "vnp_Amount"), Get(r, "vnp_BankCode"), Get(r, "vnp_PayDate"),
               Get(r, "vnp_TransactionNo"), Get(r, "vnp_TransactionType"),
               Get(r, "vnp_TransactionStatus"), Get(r, "vnp_OrderInfo")>>)

\* Mutant: a response is read whatever its HTTP status.
queryDrStatusIgnored(c, resp) ==
    LET r == resp.body
    IN  IF IsSoftErrorCode(Get(r, "vnp_ResponseCode"))
        THEN Return(WithMessage(c, r, "QUERY_DR_RESPONSE_MAP"))
        ELSE IF Str(Hash(c.secureSecret, QueryDrStringToCheckSumResponse(c, r),
                         c.HASH_ALGORITHM)) # Get(r, "vnp_SecureHash")
        THEN WrongChecksumFromVNPay
        ELSE Return(WithMessage(c, r, "QUERY_DR_RESPONSE_MAP"))

\* queryDr(query) from the response on: what it returns or throws.
queryDr(c, resp) ==
    LET r == resp.body
    IN  IF ~ResponseOk(resp) THEN HttpError(resp)
        ELSE IF IsSoftErrorCode(Get(r, "vnp_ResponseCode"))
        THEN Return(WithMessage(c, r, "QUERY_DR_RESPONSE_MAP"))
        ELSE IF Str(Hash(c.secureSecret, QueryDrStringToCheckSumResponse(c, r),
                         c.HASH_ALGORITHM)) # Get(r, "vnp_SecureHash")
        THEN WrongChecksumFromVNPay
        ELSE Return(WithMessage(c, r, "QUERY_DR_RESPONSE_MAP"))

\* refund(data) from the response on: what it returns or throws.
refund(c, resp) ==
    LET r == resp.body
    IN  IF ~ResponseOk(resp) THEN HttpError(resp)
        ELSE IF IsSoftErrorCode(Get(r, "vnp_ResponseCode"))
        THEN Return(WithMessage(c, r, "QUERY_DR_RESPONSE_MAP"))
        ELSE IF Str(Hash(c.secureSecret, RefundStringToChecksumResponse(r),
                         c.HASH_ALGORITHM)) # Get(r, "vnp_SecureHash")
        THEN WrongChecksumFromVNPay
        ELSE Return(WithMessage(c, r, "REFUND_RESPONSE_MAP"))

(***************************************************************************)
(* The merchant's parsing of a URL's query into a field map                *)
(***************************************************************************)
\* The text after the first "?".
QueryOfUrl(u) ==
    LET i == CHOOSE j \in DOMAIN u : u[j] = "?" /\ \A k \in 1..(j - 1) : u[k] # "?"
    IN  SubSeq(u, i + 1, Len(u))

\* The place of the first "=" of a pair, or one past its end.
NameEnd(p) ==
    IF \A i \in DOMAIN p : p[i] # "=" THEN Len(p) + 1
    ELSE CHOOSE i \in DOMAIN p : p[i] = "=" /\ \A k \in 1..(i - 1) : p[k] # "="

\* The decoded name and the decoded value of name=value.
NameOfPair(p) == UrlDecode(SubSeq(p, 1, NameEnd(p) - 1))
ValueOfPair(p) == UrlDecode(SubSeq(p, NameEnd(p) + 1, Len(p)))

\* The decoded <<key, value>> of each pair, in order.
RECURSIVE ParsePairs(_)
ParsePairs(pairs) ==
    IF pairs = <<>> THEN <<>>
    ELSE <<<<KeyOfChars(NameOfPair(Head(pairs))), ValueOfPair(Head(pairs))>>>>
         \o ParsePairs(Tail(pairs))

\* The object with one string-valued property per <<key, value>>.
ObjectOfPairs(parsed) ==
    [k \in {parsed[i][1] : i \in DOMAIN parsed} |->
        Str(parsed[CHOOSE i \in DOMAIN parsed : parsed[i][1] = k][2])]

\* The field map of a query.
ParseQuery(search) == ObjectOfPairs(ParsePairs(Split(search, "&")))

(***************************************************************************)
(* The sender of a callback: the gateway, or whoever imitates it.          *)
(***************************************************************************)
\* The keys in ascending byte order.
SortKeysByByte(keys) == SortKeysBy(ByteRank, keys)

\* encodeSorted of the specification: the entries whose value is not the
\* empty string, null or undefined, as key=value in ascending byte order of
\* key, values URL-encoded, joined by "&".
RECURSIVE EncodeSortedFrom(_, _, _)
EncodeSortedFrom(fields, keys, search) ==
    IF keys = <<>> THEN search
    ELSE EncodeSortedFrom(fields, Tail(keys),
            IF fields[Head(keys)] = Str(<<>>) \/ fields[Head(keys)] = Undef
               \/ fields[Head(keys)] = Null
            THEN search
            ELSE AppendParam(search, KeyChars[Head(keys)],
                             JsToString(fields[Head(keys)])))

EncodeSorted(fields) == EncodeSortedFrom(fields, SortKeysByByte(DOMAIN fields), <<>>)

\* The object with the properties of f that are not undefined.
MakeObject(f) == [k \in {j \in DOMAIN f : f[j] # Undef} |-> f[k]]

\* What a callback may carry in each field; Undef stands for "absent".
CallbackAmounts == <<Str(<<"1", "0", "0", "0", "0">>), Str(<<"5", "0", "0">>), Undef>>
CallbackCodes == <<Str(<<"0", "0">>), Str(<<"2", "4">>), Undef>>
CallbackOrderInfos == <<Str(<<"a", " ", "b">>), Str(<<>>), Undef>>
CallbackHashTypes == <<Str(SHA512), Undef>>
HashKinds == {"signed", "truncated", "forged", "missing"}
FORGER_SECRET == <<"X">>

\* The vnp_SecureHash a sender attaches to the fields.
SenderHash(c, fields, kind) ==
    LET digest == Hash(c.secureSecret, EncodeSorted(fields), c.HASH_ALGORITHM)
    IN  CASE kind = "signed" -> Str(digest)
          [] kind = "truncated" -> Str(SubSeq(digest, 1, Len(digest) - 1))
          [] kind = "forged" ->
                Str(Hash(FORGER_SECRET, EncodeSorted(fields), c.HASH_ALGORITHM))
          [] kind = "missing" -> Undef

\* The characters a tampering puts in place of one character of a value.
TamperChars == {"0", "1", "x"}

\* s with its i-th character replaced by ch.
ReplaceChar(s, i, ch) == [s EXCEPT ![i] = ch]

(***************************************************************************)
(* Bounds                                                                  *)
(***************************************************************************)
\* Verifications of one callback object.
MaxCalls == 2

(***************************************************************************)
(* Actions on callbacks                                                    *)
(***************************************************************************)
UnchangedBuild == UNCHANGED <<data, url>>
UnchangedApi == UNCHANGED <<request, response, outcome>>

\* A callback arrives (one per behaviour): its fields and the signature its
\* sender attached are handed to the merchant as one object.
ReceiveCallback ==
    /\ callback = None
    /\ \E a \in DOMAIN CallbackAmounts, rc \in DOMAIN CallbackCodes,
       oi \in DOMAIN CallbackOrderInfos, ht \in DOMAIN CallbackHashTypes,
       kind \in HashKinds :
        LET fields == MakeObject([vnp_Amount |-> CallbackAmounts[a],
                                  vnp_ResponseCode |-> CallbackCodes[rc],
                                  vnp_OrderInfo |-> CallbackOrderInfos[oi]])
            delivered == MakeObject(Spread(fields,
                            [vnp_SecureHash |-> SenderHash(cfg, fields, kind),
                             vnp_SecureHashType |-> CallbackHashTypes[ht]]))
        IN  /\ callback' = delivered
            /\ query' = delivered
    /\ op' = "receive"
    /\ arg' = None
    /\ result' = None
    /\ first' = None
    /\ calls' = 0
    /\ tampered' = "none"
    /\ UNCHANGED cfg
    /\ UnchangedBuild
    /\ UnchangedApi

\* One character of one field's value, other than the signature's, is changed
\* in a callback that was delivered untouched and verified.
Tamper ==
    /\ callback # None
    /\ tampered = "none"
    /\ calls > 0
    /\ first # None
    /\ first["isVerified"] = Bool(TRUE)
    /\ \E f \in DOMAIN callback \ {"vnp_SecureHash"} :
         \E i \in DOMAIN callback[f].s :
           \E ch \in TamperChars \ {callback[f].s[i]} :
             LET changed == [callback EXCEPT ![f] = Str(ReplaceChar(callback[f].s, i, ch))]
             IN  /\ callback' = changed
                 /\ query' = changed
                 /\ tampered' = f
    /\ op' = "tamper"
    /\ arg' = None
    /\ result' = None
    /\ first' = None
    /\ calls' = 0
    /\ UNCHANGED cfg
    /\ UnchangedBuild
    /\ UnchangedApi

\* The merchant calls verifyReturnUrl(query) on its object.
VerifyReturnUrl ==
    /\ query # None
    /\ calls < MaxCalls
    /\ LET r == verifyReturnUrl(cfg, query)
       IN  /\ query' = r.query
           /\ result' = r.ret
           /\ first' = IF calls = 0 THEN r.ret ELSE first
    /\ arg' = query
    /\ calls' = calls + 1
    /\ op' = "verifyReturnUrl"
    /\ UNCHANGED <<cfg, callback, tampered>>
    /\ UnchangedBuild
    /\ UnchangedApi

\* The merchant calls verifyIpnCall(query) on its object.
VerifyIpnCall ==
    /\ query # None
    /\ calls < MaxCalls
    /\ LET r == verifyIpnCall(cfg, query)
       IN  /\ query' = r.query
           /\ result' = r.ret
           /\ first' = IF calls = 0 THEN r.ret ELSE first
    /\ arg' = query
    /\ calls' = calls + 1
    /\ op' = "verifyIpnCall"
    /\ UNCHANGED <<cfg, callback, tampered>>
    /\ UnchangedBuild
    /\ UnchangedApi

(***************************************************************************)
(* Actions on payment URLs                                                 *)
(***************************************************************************)
\* What the caller may pass in each parameter; Undef stands for "absent".
BuildAmounts == <<Num(150), Num(0), Num(0 - 5), Str(<<"a", "b", "c">>), Undef>>
BuildOrderInfos ==
    <<Str(<<"a", " ", "b">>), Str(<<"a", "+", "b", "&", "c", "=", "%">>),
      Str(<<"%", "2", "B">>), Str(<<>>), Undef>>
BuildCreateDates ==
    <<Str(<<"2", "0", "2", "3", "1", "2", "3", "1", "2", "3", "5", "9", "5", "9">>),
      Str(<<"2", "0", "2", "3", "1", "3", "0", "1", "0", "0", "0", "0", "0", "0">>),
      Undef>>
BuildExtras == <<Str(<<"1">>), Undef>>
TXNREF == <<"1", "2">>
IPADDR == <<"1", ".", "1">>
RETURN_URL == <<"h", ":", "/", "/", "m", "/", "r">>
Clock == {<<"2", "0", "2", "4", "0", "1", "0", "1", "0", "7", "0", "0", "0", "0">>}

\* The field the caller left out, if any.
Omissions == {"none", "vnp_TxnRef", "vnp_IpAddr", "vnp_ReturnUrl"}

\* The caller builds one payment URL.
BuildPaymentUrl ==
    /\ data = None
    /\ \E am \in DOMAIN BuildAmounts, oi \in DOMAIN BuildOrderInfos,
          cd \in DOMAIN BuildCreateDates, ex \in DOMAIN BuildExtras,
          omitted \in Omissions, now \in Clock :
        LET params == MakeObject([vnp_Amount |-> BuildAmounts[am],
                                  vnp_OrderInfo |-> BuildOrderInfos[oi],
                                  vnp_TxnRef |->
                                    IF omitted = "vnp_TxnRef" THEN Undef ELSE Str(TXNREF),
                                  vnp_IpAddr |->
                                    IF omitted = "vnp_IpAddr" THEN Undef ELSE Str(IPADDR),
                                  vnp_ReturnUrl |->
                                    IF omitted = "vnp_ReturnUrl" THEN Undef
                                    ELSE Str(RETURN_URL),
                                  vnp_CreateDate |-> BuildCreateDates[cd],
                                  Ref |-> BuildExtras[ex],
                                  lang |-> BuildExtras[ex]])
        IN  /\ data' = [params |-> params, now |-> now]
            /\ url' = buildPaymentUrl(cfg, params, now)
    /\ op' = "buildPaymentUrl"
    /\ UNCHANGED <<cfg, callback, query, arg, result, first, calls, tampered>>
    /\ UnchangedApi

\* The browser comes back with the query of the built URL, and the merchant
\* parses it into a field map.
ParseBuiltQuery ==
    /\ url # None
    /\ callback = None
    /\ LET parsed == ParseQuery(QueryOfUrl(url.s))
       IN  /\ callback' = parsed
           /\ query' = parsed
    /\ op' = "parseQuery"
    /\ arg' = None
    /\ result' = None
    /\ first' = None
    /\ calls' = 0
    /\ tampered' = "none"
    /\ UNCHANGED <<cfg, data, url>>
    /\ UnchangedApi

(***************************************************************************)
(* The gateway's answers to queryDr and refund                             *)
(***************************************************************************)
\* encodeFixedOrder of the specification: the values joined by "|", an
\* absent one as the empty string.
EncodeFixedOrder(values) ==
    JoinPipe([i \in DOMAIN values |->
                IF values[i] = Undef THEN Str(<<>>) ELSE values[i]])

\* The fields a response signs, in order: fifteen for querydr, the first
\* thirteen of them for refund.
ResponseFieldNames ==
    <<"vnp_ResponseId", "vnp_Command", "vnp_ResponseCode", "vnp_Message",
      "vnp_TmnCode", "vnp_TxnRef", "vnp_Amount", "vnp_BankCode", "vnp_PayDate",
      "vnp_TransactionNo", "vnp_TransactionType", "vnp_TransactionStatus",
      "vnp_OrderInfo", "vnp_PromotionCode", "vnp_PromotionAmount">>

SignedFieldCount(command) == IF command = QUERYDR THEN 15 ELSE 13

SignedValues(command, fields) ==
    [i \in 1..SignedFieldCount(command) |-> Get(fields, ResponseFieldNames[i])]

\* A complete answer to `command`.
BaseResponse(command) ==
    [vnp_ResponseId |-> Str(<<"A">>),
     vnp_Command |-> Str(command),
     vnp_ResponseCode |-> Str(<<"0", "0">>),
     vnp_Message |-> Str(<<"M">>),
     vnp_TmnCode |-> Str(TMNCODE),
     vnp_TxnRef |-> Str(TXNREF),
     vnp_Amount |-> Num(10000),
     vnp_BankCode |-> Str(<<"B">>),
     vnp_PayDate |-> Str(<<"2", "0", "2", "4">>),
     vnp_TransactionNo |-> Num(7),
     vnp_TransactionType |-> Str(<<"0", "1">>),
     vnp_TransactionStatus |-> Str(<<"0", "0">>),
     vnp_OrderInfo |-> Str(<<"O">>),
     vnp_PromotionCode |-> Str(<<"P">>),
     vnp_PromotionAmount |-> Num(5)]

\* The response codes an answer may carry; Undef stands for "absent".
ResponseCodes ==
    <<Str(<<"0", "0">>), Str(<<"8", "9">>), Str(<<"9", "0">>), Str(<<"9", "1">>),
      Str(<<"9", "9">>), Str(<<"1", "0", "0">>), Str(<<"9", "a">>), Num(91), Undef>>

\* The field of an answer that departs from the complete one, and how.
VariedFields == (DOMAIN BaseResponse(QUERYDR) \ {"vnp_ResponseCode"}) \cup {"none"}
VariedValues == <<Undef, Str(<<>>), Str(UNDEFINED), Str(<<"x">>)>>

\* How an answer's vnp_SecureHash came about: "signed" by the gateway over
\* the fixed-order string, "literal" over the string with the text
\* "undefined" for each absent field, "forged" without the secret, "missing".
ApiHashKinds == {"signed", "literal", "forged", "missing"}

ResponseHash(c, command, fields, kind) ==
    CASE kind = "signed" ->
            Str(Hash(c.secureSecret, EncodeFixedOrder(SignedValues(command, fields)),
                     c.HASH_ALGORITHM))
      [] kind = "literal" ->
            Str(Hash(c.secureSecret, JoinPipe(SignedValues(command, fields)),
                     c.HASH_ALGORITHM))
      [] kind = "forged" ->
            Str(Hash(FORGER_SECRET, EncodeFixedOrder(SignedValues(command, fields)),
                     c.HASH_ALGORITHM))
      [] kind = "missing" -> Undef

HttpStatuses == {200, 500}

\* The HTTP responses the gateway, or whoever answers for it, may send.
Responses(c, command) ==
    {[status |-> st,
      body |-> LET fields ==
                     MakeObject([k \in DOMAIN BaseResponse(command) |->
                        IF k = "vnp_ResponseCode" THEN ResponseCodes[rc]
                        ELSE IF k = f THEN VariedValues[v]
                        ELSE BaseResponse(command)[k]])
               IN  MakeObject(Spread(fields,
                      [vnp_SecureHash |-> ResponseHash(c, command, fields, kind)]))] :
        st \in HttpStatuses, rc \in DOMAIN ResponseCodes, f \in VariedFields,
        v \in DOMAIN VariedValues, kind \in ApiHashKinds}

\* What the caller asks about.
ApiOrderInfos == {<<"O">>, <<"a", "|", "b">>}

QueryDrRequest(info) ==
    [vnp_RequestId |-> Str(<<"R">>),
     vnp_TxnRef |-> Str(TXNREF),
     vnp_TransactionDate |-> Str(<<"2", "0", "2", "3">>),
     vnp_CreateDate |-> Str(<<"2", "0", "2", "4">>),
     vnp_IpAddr |-> Str(IPADDR),
     vnp_OrderInfo |-> Str(info)]

RefundRequest(info) ==
    [vnp_RequestId |-> Str(<<"R">>),
     vnp_TransactionType |-> Str(<<"0", "2">>),
     vnp_TxnRef |-> Str(TXNREF),
     vnp_Amount |-> Num(10000),
     vnp_TransactionNo |-> Num(7),
     vnp_TransactionDate |-> Str(<<"2", "0", "2", "3">>),
     vnp_CreateBy |-> Str(<<"m">>),
     vnp_CreateDate |-> Str(<<"2", "0", "2", "4">>),
     vnp_IpAddr |-> Str(IPADDR),
     vnp_OrderInfo |-> Str(info)]

(***************************************************************************)
(* Actions on queries and refunds                                          *)
(***************************************************************************)
UnchangedCallback == UNCHANGED <<callback, query, arg, result, first, calls, tampered>>

\* The merchant calls queryDr(query): the request is posted, the response
\* arrives, the call returns or throws.
QueryDr ==
    /\ request = None
    /\ \E info \in ApiOrderInfos, resp \in Responses(cfg, QUERYDR) :
        /\ request' = QueryDrRequestBody(cfg, QueryDrRequest(info))
        /\ response' = resp
        /\ outcome' = queryDr(cfg, resp)
    /\ op' = "queryDr"
    /\ UNCHANGED cfg
    /\ UnchangedCallback
    /\ UnchangedBuild

\* The merchant calls refund(data).
Refund ==
    /\ request = None
    /\ \E info \in ApiOrderInfos, resp \in Responses(cfg, REFUND) :
        /\ request' = RefundRequestBody(cfg, RefundRequest(info))
        /\ response' = resp
        /\ outcome' = refund(cfg, resp)
    /\ op' = "refund"
    /\ UNCHANGED cfg
    /\ UnchangedCallback
    /\ UnchangedBuild

(***************************************************************************)
(* Specifications                                                          *)
(***************************************************************************)
HashAlgorithmOptions == <<Undef, Str(SHA256)>>

Init ==
    /\ cfg \in {Constructor(HashAlgorithmOptions[i]) : i \in DOMAIN HashAlgorithmOptions}
    /\ op = "init"
    /\ callback = None
    /\ query = None
    /\ arg = None
    /\ result = None
    /\ first = None
    /\ calls = 0
    /\ tampered = "none"
    /\ data = None
    /\ url = None
    /\ request = None
    /\ response = None
    /\ outcome = None

\* Callbacks: delivery, tampering, and the two verifications.
Next == ReceiveCallback \/ Tamper \/ VerifyReturnUrl \/ VerifyIpnCall

Spec == Init /\ [][Next]_vars


\* Payment URLs: building one, parsing its query, verifying the field map.
NextBuild == BuildPaymentUrl \/ ParseBuiltQuery \/ VerifyReturnUrl \/ VerifyIpnCall

SpecBuild == Init /\ [][NextBuild]_vars

\* Queries and refunds.
NextApi == QueryDr \/ Refund

SpecApi == Init /\ [][NextApi]_vars

(***************************************************************************)
(* Claims about callbacks (specification Spec)                             *)
(***************************************************************************)
Verifying == op \in {"verifyReturnUrl", "verifyIpnCall"}

\* The signature of the specification's sorted rule over the fields of the
\* object a verification was called with.
ExpectedSignature(q0) ==
    Str(Hash(cfg.secureSecret, EncodeSorted(StripSignatureFields(q0)),
             cfg.HASH_ALGORITHM))

\* C2 as stated: after one character of any field other than vnp_SecureHash
\* was changed in a callback that verified, verification returns
\* isVerified = false.
C2_AnyFieldTamperRejected ==
    (Verifying /\ tampered # "none" /\ calls = 1)
        => result["isVerified"] = Bool(FALSE)

\* C2 as amended: after one character of any field other than vnp_SecureHash
\* and vnp_SecureHashType was changed in a callback that verified,
\* verification returns isVerified = false.
C2_SignedFieldTamperRejected ==
    (Verifying /\ tampered \notin {"none", "vnp_SecureHashType"} /\ calls = 1)
        => result["isVerified"] = Bool(FALSE)

C2_Witness ==
    /\ Verifying
    /\ tampered = "vnp_Amount"
    /\ calls = 1
    /\ result["isVerified"] = Bool(FALSE)

\* C3: a verification always returns an object; on a signature mismatch
\* (a missing or truncated vnp_SecureHash included) it has isVerified = false,
\* message "Wrong checksum" and the callback's other fields, and on a match
\* isVerified = true and the message looked up for the response code.
C3_MismatchReturnedAsWrongChecksum ==
    Verifying =>
        LET code == Get(arg, "vnp_ResponseCode")
        IN  /\ result # None
            /\ Get(arg, "vnp_SecureHash") # ExpectedSignature(arg) =>
                /\ result["isVerified"] = Bool(FALSE)
                /\ result["message"] = Str(WrongChecksum)
                /\ \A k \in DOMAIN StripSignatureFields(arg) \ {"vnp_Amount"} :
                      result[k] = arg[k]
            /\ Get(arg, "vnp_SecureHash") = ExpectedSignature(arg) =>
                /\ result["isVerified"] = Bool(TRUE)
                /\ result["message"] =
                      GetResponseByStatusCode(
                          IF code = Undef THEN Str(<<>>) ELSE code,
                          cfg.vnp_Locale, "RESPONSE_MAP")

C3_Witness ==
    /\ Verifying
    /\ calls = 1
    /\ "vnp_SecureHash" \in DOMAIN arg
    /\ arg["vnp_SecureHash"].s =
          SubSeq(ExpectedSignature(arg).s, 1, Len(ExpectedSignature(arg).s) - 1)
    /\ "vnp_OrderInfo" \in DOMAIN result
    /\ result["isVerified"] = Bool(FALSE)
    /\ result["message"] = Str(WrongChecksum)

\* C8: a verification leaves the caller's object as it was, and a second
\* verification of the same object returns the same isVerified, isSuccess
\* and message as the first.
C8_ArgumentUnchanged ==
    Verifying =>
        /\ query = arg
        /\ \A k \in {"isVerified", "isSuccess", "message"} : result[k] = first[k]

\* C10: isSuccess is true exactly when vnp_ResponseCode is "00", whatever
\* the signature check says.
C10_IsSuccessIgnoresSignature ==
    Verifying =>
        result["isSuccess"] = Bool(Get(arg, "vnp_ResponseCode") = Str(<<"0", "0">>))

C10_Witness ==
    /\ Verifying
    /\ calls = 1
    /\ Get(arg, "vnp_SecureHash") # ExpectedSignature(arg)
    /\ result["isVerified"] = Bool(FALSE)
    /\ result["isSuccess"] = Bool(TRUE)


(***************************************************************************)
(* Claims about payment URLs (specification SpecBuild)                     *)
(***************************************************************************)
\* The pairs of a query other than vnp_SecureHash, joined again by "&".
RECURSIVE JoinUnsigned(_, _)
JoinUnsigned(pairs, search) ==
    IF pairs = <<>> THEN search
    ELSE JoinUnsigned(Tail(pairs),
            IF NameOfPair(Head(pairs)) = KeyChars["vnp_SecureHash"] THEN search
            ELSE IF search = <<>> THEN Head(pairs)
            ELSE search \o <<"&">> \o Head(pairs))

QueryWithoutSecureHash(u) == JoinUnsigned(Split(QueryOfUrl(u), "&"), <<>>)

\* C1: the field map parsed from the query of a built URL verifies, and its
\* vnp_SecureHash is the signature of the URL's query without vnp_SecureHash.
C1_BuiltUrlVerifies ==
    /\ (op = "parseQuery") =>
          callback["vnp_SecureHash"] =
              Str(Hash(cfg.secureSecret, QueryWithoutSecureHash(url.s),
                       cfg.HASH_ALGORITHM))
    /\ (Verifying /\ calls = 1) => result["isVerified"] = Bool(TRUE)

C1_Witness ==
    /\ Verifying
    /\ calls = 1
    /\ Get(data.params, "vnp_OrderInfo") = Str(<<"a", "+", "b", "&", "c", "=", "%">>)
    /\ Get(arg, "vnp_OrderInfo") = Str(<<"a", "+", "b", "&", "c", "=", "%">>)
    /\ Get(arg, "vnp_Amount") = Str(<<"1", "5", "0", "0", "0">>)
    /\ result["isVerified"] = Bool(TRUE)

\* C6: buildPaymentUrl fails with a ValidationError, and returns no URL, when
\* the amount is not a number or is negative, or a required field is missing.
RequiredFields == {"vnp_Amount", "vnp_TxnRef", "vnp_IpAddr", "vnp_OrderInfo", "vnp_ReturnUrl"}

InvalidParams(params) ==
    \/ ToNumber(Get(params, "vnp_Amount")) = NaN
    \/ ToNumber(Get(params, "vnp_Amount")).n < 0
    \/ \E k \in RequiredFields : k \notin DOMAIN params

C6_InvalidParamsRejected ==
    (op = "buildPaymentUrl" /\ InvalidParams(data.params))
        => url = [t |-> "throw", error |-> "ValidationError"]

\* C7: the string buildPaymentUrl signs, and the string verifyReturnUrl signs,
\* is the sorted rule's: exactly the entries whose value is not the empty
\* string, null or undefined, as key=value in ascending byte order of key.
C7_SignedStringIsSortedRule ==
    /\ (op = "buildPaymentUrl") =>
          QueryWithoutSecureHash(url.s) =
              EncodeSorted(DataToBuild(cfg, data.params, data.now))
    /\ Verifying =>
          VerifySearchParams(StripSignatureFields(arg)) =
              EncodeSorted(StripSignatureFields(arg))


(***************************************************************************)
(* Claims about queryDr and refund (specification SpecApi)                 *)
(***************************************************************************)
Calling == op \in {"queryDr", "refund"}

\* The response code, read as a number, lies in [90, 99].
InSoftRange(code) ==
    /\ ToNumber(code) # NaN
    /\ ToNumber(code).n \in 90..99

\* The fifteen values a querydr response is checked against, with "undefined"
\* removed throughout, and the thirteen a refund response is checked
\* against, with "undefined" standing for each absent one.
RECURSIVE WithoutUndefined(_)
WithoutUndefined(text) ==
    IF Len(text) < Len(UNDEFINED) THEN text
    ELSE IF SubSeq(text, 1, Len(UNDEFINED)) = UNDEFINED
         THEN WithoutUndefined(SubSeq(text, Len(UNDEFINED) + 1, Len(text)))
         ELSE <<Head(text)>> \o WithoutUndefined(Tail(text))

QueryDrSignedText(body) ==
    WithoutUndefined(
        JoinPipe([i \in 1..15 |->
                    IF ResponseFieldNames[i] = "vnp_TmnCode" THEN Str(cfg.tmnCode)
                    ELSE Get(body, ResponseFieldNames[i])]))

RefundSignedText(body) ==
    JoinPipe([i \in 1..13 |->
                IF ResponseFieldNames[i] = "vnp_Command" THEN Str(REFUND)
                ELSE IF Get(body, ResponseFieldNames[i]) = Undef THEN Str(UNDEFINED)
                ELSE Get(body, ResponseFieldNames[i])])

SignatureMatches(body) ==
    Get(body, "vnp_SecureHash") =
        Str(Hash(cfg.secureSecret,
                 IF op = "queryDr" THEN QueryDrSignedText(body) ELSE RefundSignedText(body),
                 cfg.HASH_ALGORITHM))

\* C4: queryDr and refund return only on a success status with the code in
\* [90, 99] or a matching signature; any other status throws the HTTP error
\* and a mismatch outside [90, 99] throws "Wrong checksum from VNPay response".
C4_ReturnsOnlyCheckedResponses ==
    Calling =>
        LET body == response.body
            code == Get(body, "vnp_ResponseCode")
        IN  /\ outcome.t = "return" =>
                /\ response.status \in 200..299
                /\ InSoftRange(code) \/ SignatureMatches(body)
            /\ response.status \notin 200..299 => outcome = HttpError(response)
            /\ (response.status \in 200..299 /\ ~InSoftRange(code)
                    /\ ~SignatureMatches(body))
                => outcome = WrongChecksumFromVNPay

C4_Witness ==
    /\ Calling
    /\ response.status = 200
    /\ Get(response.body, "vnp_ResponseCode") = Str(<<"0", "0">>)
    /\ "vnp_SecureHash" \in DOMAIN response.body
    /\ ~SignatureMatches(response.body)
    /\ outcome = WrongChecksumFromVNPay

\* C5: on a success status a code in [90, 99] returns the response with the
\* looked-up vnp_Message whatever its vnp_SecureHash, and a code outside
\* [90, 99] is returned only with a matching signature.
C5_SoftRangeBypassesSignature ==
    (Calling /\ response.status \in 200..299) =>
        LET body == response.body
            code == Get(body, "vnp_ResponseCode")
        IN  /\ InSoftRange(code) =>
                outcome = Return(WithMessage(cfg, body, "QUERY_DR_RESPONSE_MAP"))
            /\ ~InSoftRange(code) =>
                (outcome.t = "return" <=> SignatureMatches(body))

C5_Witness ==
    /\ Calling
    /\ response.status = 200
    /\ Get(response.body, "vnp_ResponseCode") = Str(<<"9", "1">>)
    /\ ~SignatureMatches(response.body)
    /\ outcome.t = "return"
    /\ outcome.value["vnp_Message"].t = "msg"

\* C9: queryDr checks the signature over the fifteen values with every
\* "undefined" removed, so an absent field and an empty one are signed alike;
\* refund checks it over the thirteen values unscrubbed, so an absent field
\* is signed as the text "undefined".
C9_AbsentFieldRendering ==
    (Calling /\ response.status \in 200..299
        /\ ~InSoftRange(Get(response.body, "vnp_ResponseCode"))) =>
        LET body == response.body
        IN  /\ outcome.t = "return" <=> SignatureMatches(body)
            /\ op = "queryDr" =>
                \A k \in DOMAIN BaseResponse(QUERYDR) \ DOMAIN body :
                    QueryDrStringToCheckSumResponse(cfg, body) =
                        QueryDrStringToCheckSumResponse(cfg,
                            Spread(body, [j \in {k} |-> Str(<<>>)]))
            /\ (op = "refund" /\ outcome.t = "return") =>
                \A i \in 1..13 :
                    ResponseFieldNames[i] \notin DOMAIN body \cup {"vnp_Command"} =>
                        Get(body, "vnp_SecureHash") #
                            Str(Hash(cfg.secureSecret,
                                     EncodeFixedOrder(
                                        [SignedValues(REFUND, body) EXCEPT ![2] = Str(REFUND)]),
                                     cfg.HASH_ALGORITHM))

C9_Witness ==
    /\ op = "refund"
    /\ response.status = 200
    /\ Get(response.body, "vnp_ResponseCode") = Str(<<"0", "0">>)
    /\ "vnp_OrderInfo" \notin DOMAIN response.body
    /\ outcome.t = "return"


====
